---- MODULE Spec2Model ----
(***************************************************************************)
(* The WebSocket manager of static/app.js (lines 93-183): one global       *)
(* socket handle, a pending table of correlated requests with per-request  *)
(* timers, an authentication push that resolves the connect promise, and   *)
(* reconnection with exponential backoff.  The browser runs every handler  *)
(* to completion, promise continuations included, so each handler is one   *)
(* action.                                                                 *)
(***************************************************************************)
EXTENDS Integers, FiniteSets, Sequences, TLC

\* ---- bounds ----
MaxCalls == 2          \* wsSend invocations
MaxConnects == 1       \* explicit wsConnect invocations (start())
MaxCloseCount == 7     \* saturation of the consecutive-close history counter

\* ---- program constants ----
NULL == 0
INITIAL_RECONNECT_DELAY == 500
WS_MAX_RECONNECT_DELAY == 16000

Call == 1..MaxCalls
Connector == 1..MaxConnects
\* every transport is created by a wsSend, an explicit wsConnect or a
\* reconnect timer, and every reconnect timer by a close: so many can coexist
Sock == 1..(MaxCalls + MaxConnects)
ReqIds == 1..MaxCalls

\* a property that is undefined in a frame or on an error object
Undefined == -1
UndefinedText == "<undefined>"

NoMeta == "<no meta>"
NoToken == ""
\* _setMeta(name, content) of the embedding component: meta.content = content
\* stores the string conversion of the token prop
setMeta(content) == IF content = UndefinedText THEN "undefined" ELSE content

\* no meta tag, an empty one, one rendered by the server, one set by the
\* component from its token prop (given or not)
MetaContents == {NoMeta, NoToken, "fresh"} \cup {setMeta(t) : t \in {UndefinedText, "fresh"}}
StoredTokens == {NoToken, "cached"}
PushTokens == {"pushed"}
RenewedTokens == {"pushed", "renewed"}

NoWaiter == <<"none", 0>>

\* values of the event history: not kept, and kept with no handler run yet
Unobserved == <<"unobserved", 0, 0>>
NoEvent == <<"none", 0, 0>>

\* inbound response frames {id, ok, result} and {id, ok, error, code, limit,
\* current, attempted}
Frame(id, ok, result, error, code, limit, current, attempted) ==
  [id |-> id, ok |-> ok, result |-> result, error |-> error, code |-> code,
   limit |-> limit, current |-> current, attempted |-> attempted]

\* the server's answers to request id: its result, or a rate-limit failure
SuccessFrame(id) ==
  Frame(id, TRUE, id, UndefinedText, Undefined, Undefined, Undefined, Undefined)
FailureFrame(id) ==
  Frame(id, FALSE, Undefined, "Rate limit exceeded", 429, 10, 10, id)
Frames == {SuccessFrame(id) : id \in ReqIds} \cup {FailureFrame(id) : id \in ReqIds}

\* failure frames with every combination of optional fields, for request 1
FailureFrames ==
  {Frame(1, FALSE, Undefined, error, code, limit, current, attempted) :
     error \in {UndefinedText, "", "Rate limit exceeded"},
     code \in {Undefined, 0, 429},
     limit \in {Undefined, 0, 10},
     current \in {Undefined, 10},
     attempted \in {Undefined, 1}}

\* no frame
NoFrame == Frame(0, FALSE, Undefined, UndefinedText, Undefined, Undefined, Undefined, Undefined)

\* what a wsSend promise is settled with: a result, or the fields of an Error
NoValue == [result |-> Undefined, message |-> UndefinedText, code |-> Undefined,
            limit |-> Undefined, current |-> Undefined, attempted |-> Undefined]

Min(a, b) == IF a < b THEN a ELSE b

VARIABLES
  ws,                \* _ws: NULL or the socket last assigned
  readyState,        \* WebSocket.readyState of every socket ("NONE": no such socket)
  authed,            \* history: an auth push was received on the socket
  waiter,            \* the continuation attached to the promise of the wsConnect that made the socket
  wsToken,           \* _wsToken
  sessionToken,      \* sessionStorage['bs-token']
  metaToken,         \* content of <meta name="bs-token">
  lastUrlToken,      \* history: token of the URL of the latest connection attempt
  lastPushed,        \* history: token of the latest authentication push
  wsPending,         \* _wsPending: request id -> call whose closures the entry holds
  timers,            \* calls whose request timer is armed
  wsReqId,           \* _wsReqId
  wsReconnectDelay,  \* _wsReconnectDelay
  reconnectTimers,   \* number of armed reconnect timers
  calls,             \* one record per wsSend invocation
  conns,             \* state of every explicit wsConnect promise
  closeCount,        \* history: close events since the last open event (saturating)
  lastDelay,         \* history: delay of the reconnect timer armed by the latest close
                     \* (0 when no close followed the latest open)
  lastClosed,        \* history: the calls the latest close handler rejected
                     \* (empty when no close followed the latest open)
  failuresBefore,    \* history: close events (0, 1, 2 = more) that preceded the latest open,
                     \* kept until the second close after it
  everClosed,        \* history: some socket has fired its close event
  lastEvent          \* history: the handler that ran last, <<kind, id, socket>> with the
                     \* id of the frame it handled; kept only by the behaviours
                     \* that start with NoEvent

vars == <<ws, readyState, authed, waiter, wsToken, sessionToken, metaToken,
          lastUrlToken, lastPushed, wsPending, timers, wsReqId, wsReconnectDelay,
          reconnectTimers, calls, conns, closeCount, lastDelay, lastClosed,
          failuresBefore, everClosed, lastEvent>>

sockVars == <<ws, readyState, authed, waiter>>
tokenVars == <<wsToken, sessionToken, metaToken, lastPushed>>
callVars == <<wsPending, timers, wsReqId, calls>>
backoffVars == <<wsReconnectDelay, reconnectTimers, closeCount, lastDelay, lastClosed,
                 failuresBefore, everClosed>>

\* value: what the promise was settled with; frame (history): the response
\* frame whose handling settled it
NewCall == [st |-> "idle", id |-> 0, outcome |-> "none", nSettle |-> 0,
            frames |-> 0, sock |-> NULL, value |-> NoValue, frame |-> NoFrame]

InitWith(metas, stored) ==
  /\ ws = NULL
  /\ readyState = [s \in Sock |-> "NONE"]
  /\ authed = [s \in Sock |-> FALSE]
  /\ waiter = [s \in Sock |-> NoWaiter]
  /\ wsToken = NoToken
  /\ sessionToken \in stored
  /\ metaToken \in metas
  /\ lastUrlToken = NoToken
  /\ lastPushed = NoToken
  /\ wsPending = <<>>
  /\ timers = {}
  /\ wsReqId = 0
  /\ wsReconnectDelay = INITIAL_RECONNECT_DELAY
  /\ reconnectTimers = 0
  /\ calls = [c \in Call |-> NewCall]
  /\ conns = [k \in Connector |-> "idle"]
  /\ closeCount = 0
  /\ lastDelay = 0
  /\ lastClosed = {}
  /\ failuresBefore = 0
  /\ everClosed = FALSE

\* a page whose server rendered a fresh token, with one cached by an earlier load
Init == InitWith({"fresh"}, {"cached"}) /\ lastEvent = Unobserved

\* the handler of kind, for the frame id and socket s, is the one that runs
Observe(kind, id, s) ==
  lastEvent' = IF lastEvent = Unobserved THEN Unobserved ELSE <<kind, id, s>>

\* ---- helpers ----

\* _ws && _ws.readyState === WebSocket.OPEN
wsIsOpen == ws # NULL /\ readyState[ws] = "OPEN"

\* mutant: sessionStorage is preferred to the meta tag
getInitialTokenStoredFirst ==
  IF sessionToken # NoToken THEN sessionToken
  ELSE IF metaToken # NoMeta THEN metaToken ELSE NoToken

\* _getInitialToken()
getInitialToken ==
  IF metaToken # NoMeta /\ metaToken # NoToken THEN metaToken ELSE sessionToken

\* resolve()/reject() of the promise wsSend returned: the first invocation
\* decides the outcome, nSettle counts the invocations
Settle(rec, how) ==
  [rec EXCEPT !.st = "settled",
              !.outcome = IF @ = "none" THEN how ELSE @,
              !.nSettle = Min(@ + 1, 2),
              !.sock = NULL]

\* resolve(v)/reject(e): as Settle, v or e being what the promise is settled with
SettleWith(rec, how, v, msg) ==
  [Settle(rec, how) EXCEPT !.value = IF rec.outcome = "none" THEN v ELSE @,
                           !.frame = IF rec.outcome = "none" THEN msg ELSE @]

\* pending.resolve(msg.result)
ResultValue(msg) == [NoValue EXCEPT !.result = msg.result]

\* the Error the failure branch of the message listener builds
MakeError(msg) ==
  [NoValue EXCEPT
     !.message = IF msg.error \in {UndefinedText, ""} THEN "Request failed" ELSE msg.error,
     !.code = IF msg.code \in {Undefined, 0} THEN 500 ELSE msg.code,
     !.limit = IF msg.limit # Undefined THEN msg.limit ELSE Undefined,
     !.current = IF msg.limit # Undefined THEN msg.current ELSE Undefined,
     !.attempted = IF msg.limit # Undefined THEN msg.attempted ELSE Undefined]

\* Map.prototype.set / delete
MapSet(m, k, v) == [x \in (DOMAIN m) \cup {k} |-> IF x = k THEN v ELSE m[x]]
MapDelete(m, k) == [x \in (DOMAIN m) \ {k} |-> m[x]]
Range(m) == {m[x] : x \in DOMAIN m}

\* mutant: the id is taken from the counter without incrementing it
NextReqIdStale == IF wsReqId = 0 THEN 1 ELSE wsReqId

\* the id allocated by ready(): `r${++_wsReqId}`
NextReqId == wsReqId + 1

\* mutant: the id is allocated before the connection is tested
readyIdFirst(c) ==
  IF ~wsIsOpen
  THEN /\ calls' = [calls EXCEPT ![c] = Settle(@, "notconnected")]
       /\ wsReqId' = NextReqId
       /\ UNCHANGED <<wsPending, timers>>
  ELSE /\ wsReqId' = NextReqId
       /\ timers' = timers \cup {c}
       /\ wsPending' = MapSet(wsPending, NextReqId, c)
       /\ calls' = [calls EXCEPT ![c] = [@ EXCEPT !.st = "pending",
                                                  !.id = NextReqId,
                                                  !.frames = Min(@ + 1, 2),
                                                  !.sock = ws]]

\* ready() of wsSend, for call c
ready(c) ==
  IF ~wsIsOpen
  THEN /\ calls' = [calls EXCEPT ![c] = Settle(@, "notconnected")]
       /\ UNCHANGED <<wsPending, timers, wsReqId>>
  ELSE /\ wsReqId' = NextReqId
       /\ timers' = timers \cup {c}
       /\ wsPending' = MapSet(wsPending, NextReqId, c)
       /\ calls' = [calls EXCEPT ![c] = [@ EXCEPT !.st = "pending",
                                                  !.id = NextReqId,
                                                  !.frames = Min(@ + 1, 2),
                                                  !.sock = ws]]

\* the continuation attached to a wsConnect promise runs when it resolves
Continue(w) ==
  CASE w[1] = "call" -> ready(w[2]) /\ UNCHANGED conns
    [] w[1] = "conn" -> /\ conns' = [conns EXCEPT ![w[2]] = "resolved"]
                        /\ UNCHANGED callVars
    [] OTHER -> UNCHANGED <<callVars, conns>>

\* the slot of the socket `new WebSocket(url)` creates
NewSocket == CHOOSE s \in Sock : readyState[s] = "NONE" /\ \A t \in Sock : readyState[t] = "NONE" => s <= t

\* mutant: the page's initial token is preferred to the pushed one
UrlTokenInitialFirst == IF getInitialToken # NoToken THEN getInitialToken ELSE wsToken

\* const token = _wsToken || _getInitialToken()
UrlToken == IF wsToken # NoToken THEN wsToken ELSE getInitialToken

\* mutant: wsConnect opens a transport whatever the state of the current one
ConnectShortcutNever == FALSE

\* may wsConnect return without opening a transport?
ConnectShortcut == wsIsOpen

\* wsConnect(), with w the continuation its caller attaches to the promise
wsConnect(w) ==
  IF ConnectShortcut
  THEN /\ Continue(w)
       /\ UNCHANGED <<sockVars, lastUrlToken>>
  ELSE /\ lastUrlToken' = UrlToken
       /\ readyState' = [readyState EXCEPT ![NewSocket] = "CONNECTING"]
       /\ authed' = [authed EXCEPT ![NewSocket] = FALSE]
       /\ waiter' = [waiter EXCEPT ![NewSocket] = w]
       /\ ws' = NewSocket
       /\ UNCHANGED <<wsPending, timers, wsReqId>>
       /\ IF w[1] = "call"
          THEN calls' = [calls EXCEPT ![w[2]].st = "waiting"] /\ UNCHANGED conns
          ELSE IF w[1] = "conn"
          THEN conns' = [conns EXCEPT ![w[2]] = "waiting"] /\ UNCHANGED calls
          ELSE UNCHANGED <<calls, conns>>

\* ---- actions ----

\* wsSend(action, payload, timeoutMs) invoked by a caller; the invocations are
\* numbered in the order they are made
wsSend(c) ==
  /\ calls[c].st = "idle"
  /\ \A d \in Call : d < c => calls[d].st # "idle"
  /\ IF wsIsOpen
     THEN ready(c) /\ UNCHANGED <<sockVars, lastUrlToken, conns>>
     ELSE wsConnect(<<"call", c>>)
  /\ Observe("send", 0, 0)
  /\ UNCHANGED <<tokenVars, backoffVars>>

\* await wsConnect() in start()
CallerConnect(k) ==
  /\ conns[k] = "idle"
  /\ wsConnect(<<"conn", k>>)
  /\ Observe("connect", 0, 0)
  /\ UNCHANGED <<tokenVars, backoffVars>>

\* the reconnect timer armed by a close handler fires: wsConnect()
ReconnectTimerFire ==
  /\ reconnectTimers > 0
  /\ reconnectTimers' = reconnectTimers - 1
  /\ wsConnect(NoWaiter)
  /\ Observe("timer", 0, 0)
  /\ UNCHANGED <<tokenVars, wsReconnectDelay, closeCount, lastDelay, lastClosed,
                 failuresBefore, everClosed>>

\* mutant: the open handler leaves the delay as it is
DelayAfterOpenKept(d) == d

\* the delay the open handler stores
DelayAfterOpen(d) == INITIAL_RECONNECT_DELAY

\* 'open' event of socket s
OnOpen(s) ==
  /\ readyState[s] = "CONNECTING"
  /\ readyState' = [readyState EXCEPT ![s] = "OPEN"]
  /\ wsReconnectDelay' = DelayAfterOpen(wsReconnectDelay)
  /\ closeCount' = 0
  /\ failuresBefore' = Min(closeCount, 2)
  /\ lastDelay' = 0
  /\ lastClosed' = {}
  /\ Observe("open", 0, 0)
  /\ UNCHANGED <<ws, authed, waiter, tokenVars, lastUrlToken, callVars, conns,
                 reconnectTimers, everClosed>>

\* mutant: the continuation stays attached and runs at every auth push
AfterResolveKept(w) == w

\* a promise runs its continuation once: none is left after resolve()
AfterResolve(w) == NoWaiter

\* 'message' event of socket s carrying {type: 'auth', token}; the branch
\* returns before msg.id is read, so whatever id the frame carries (0: none)
\* shows in the event history only ("reauth": resolve() had been called)
OnAuthMessage(s, token) ==
  /\ readyState[s] = "OPEN"
  /\ \E id \in {0} \cup ReqIds : Observe(IF authed[s] THEN "reauth" ELSE "auth", id, s)
  /\ wsToken' = token
  /\ sessionToken' = token
  /\ lastPushed' = token
  /\ authed' = [authed EXCEPT ![s] = TRUE]
  /\ waiter' = [waiter EXCEPT ![s] = AfterResolve(waiter[s])]
  /\ Continue(waiter[s])
  /\ UNCHANGED <<ws, readyState, metaToken, lastUrlToken, backoffVars>>

\* mutant: the entry's closures settle the call without clearTimeout
ClearTimeoutOmitted(ts, c) == ts

\* the timers left armed when the entry of call c is settled through its
\* resolve/reject closures (both clearTimeout(timer))
ClearTimeout(ts, c) == ts \ {c}

\* mutant: a response settles the oldest pending entry, whatever its id
LookupKeyOldest(m, id) ==
  IF DOMAIN m = {} THEN id ELSE CHOOSE k \in DOMAIN m : \A j \in DOMAIN m : k <= j

\* the key of _wsPending.get(msg.id)
LookupKey(m, id) == id

\* 'message' event of socket s carrying the response frame msg
OnResponse(s, msg) ==
  /\ readyState[s] = "OPEN"
  /\ LET k == LookupKey(wsPending, msg.id) IN
     IF k \in DOMAIN wsPending
     THEN /\ wsPending' = MapDelete(wsPending, k)
          /\ timers' = ClearTimeout(timers, wsPending[k])
          /\ calls' = [calls EXCEPT ![wsPending[k]] =
                         IF msg.ok THEN SettleWith(@, "result", ResultValue(msg), msg)
                         ELSE SettleWith(@, "error", MakeError(msg), msg)]
     ELSE UNCHANGED <<wsPending, timers, calls>>
  /\ Observe("response", msg.id, s)
  /\ UNCHANGED <<sockVars, tokenVars, lastUrlToken, wsReqId, conns, backoffVars>>

\* mutant: the timer empties the pending table
TimeoutClearsTable(m, c) == <<>>

\* mutant: the timer rejects without removing the entry
TimeoutDeleteOmitted(m, c) == m

\* the pending table the request timer of call c leaves
TimeoutDelete(m, c) == MapDelete(m, calls[c].id)

\* the request timer of call c fires
OnRequestTimeout(c) ==
  /\ c \in timers
  /\ timers' = timers \ {c}
  /\ wsPending' = TimeoutDelete(wsPending, c)
  /\ calls' = [calls EXCEPT ![c] = Settle(@, "timeout")]
  /\ Observe("timeout", calls[c].id, 0)
  /\ UNCHANGED <<sockVars, tokenVars, lastUrlToken, wsReqId, conns, backoffVars>>

\* the closing handshake of socket s starts: readyState becomes CLOSING
OnClosing(s) ==
  /\ readyState[s] = "OPEN"
  /\ readyState' = [readyState EXCEPT ![s] = "CLOSING"]
  /\ Observe("closing", 0, 0)
  /\ UNCHANGED <<ws, authed, waiter, tokenVars, lastUrlToken, callVars, conns, backoffVars>>

\* mutant: the delay is doubled without the cap
NextDelayUncapped(d) == d * 2

\* the delay the close handler stores for the next failure
NextDelay(d) == Min(d * 2, WS_MAX_RECONNECT_DELAY)

\* mutant: the delay is doubled before the timer is armed
ScheduledDelayDoubled(d) == Min(d * 2, WS_MAX_RECONNECT_DELAY)

\* the delay of the reconnect timer the close handler arms
ScheduledDelay(d) == d

\* mutant: the close handler rejects only the calls written to its own socket
ClosedCallsOwn(s) == {c \in Range(wsPending) : calls[c].sock = s}

\* the calls the close handler rejects
ClosedCalls(s) == Range(wsPending)

\* mutant: the close handler gives up after three consecutive failures
TimersAfterCloseGivingUp(n) == IF closeCount < 3 THEN n + 1 ELSE n

\* the armed reconnect timers after the close handler's setTimeout
TimersAfterClose(n) == n + 1

\* mutant: the id counter starts over with every connection
ReqIdAfterCloseReset(n) == 0

\* the close handler leaves _wsReqId alone
ReqIdAfterClose(n) == n

\* mutant: the close handler rejects the entries and leaves them in the table
PendingAfterCloseKept(m) == m

\* _wsPending.clear()
PendingAfterClose(m) == <<>>

\* 'close' event of socket s (a failed connection attempt included)
OnClose(s) ==
  /\ readyState[s] # "NONE"
  /\ readyState' = [readyState EXCEPT ![s] = "NONE"]
  /\ authed' = [authed EXCEPT ![s] = FALSE]
  /\ waiter' = [waiter EXCEPT ![s] = NoWaiter]
  /\ ws' = NULL
  /\ calls' = [c \in Call |-> IF c \in ClosedCalls(s) THEN Settle(calls[c], "closed")
                              ELSE calls[c]]
  /\ timers' = timers \ ClosedCalls(s)
  /\ wsPending' = PendingAfterClose(wsPending)
  /\ reconnectTimers' = TimersAfterClose(reconnectTimers)
  /\ lastDelay' = ScheduledDelay(wsReconnectDelay)
  /\ lastClosed' = ClosedCalls(s)
  /\ wsReconnectDelay' = NextDelay(wsReconnectDelay)
  /\ closeCount' = Min(closeCount + 1, MaxCloseCount)
  /\ failuresBefore' = (IF closeCount = 0 THEN failuresBefore ELSE 0)
  /\ everClosed' = TRUE
  /\ wsReqId' = ReqIdAfterClose(wsReqId)
  /\ Observe("close", 0, 0)
  /\ UNCHANGED <<tokenVars, lastUrlToken, conns>>

Next ==
  \/ \E c \in Call : wsSend(c)
  \/ \E k \in Connector : CallerConnect(k)
  \/ ReconnectTimerFire
  \/ \E s \in Sock : OnOpen(s)
  \/ \E s \in Sock, token \in PushTokens : OnAuthMessage(s, token)
  \/ \E s \in Sock, msg \in Frames : OnResponse(s, msg)
  \/ \E c \in Call : OnRequestTimeout(c)
  \/ \E s \in Sock : OnClosing(s)
  \/ \E s \in Sock : OnClose(s)

Spec == Init /\ [][Next]_vars

\* Timers fire, a connection attempt opens or fails, the server pushes the
\* authentication frame on every transport that stays open, and a closing
\* handshake that has started completes; connections that keep opening are
\* not all dropped before their authentication push.
Fairness ==
  /\ SF_vars(\E s \in Sock, token \in PushTokens : OnAuthMessage(s, token))
  /\ \A s \in Sock : WF_vars(readyState[s] = "CLOSING" /\ OnClose(s))
  /\ WF_vars(ReconnectTimerFire)
  /\ \A c \in Call : WF_vars(OnRequestTimeout(c))
  /\ \A s \in Sock : WF_vars(OnOpen(s))
  /\ \A s \in Sock : WF_vars(\E token \in PushTokens : OnAuthMessage(s, token))

FairSpec == Init /\ [][Next]_vars /\ Fairness

\* Every hosting page (with and without meta tag, token prop and cached
\* token), one wsSend, and authentication pushes that renew the token.
TokenInit == InitWith(MetaContents, StoredTokens) /\ lastEvent = Unobserved

TokenNext ==
  \/ wsSend(1)
  \/ \E k \in Connector : CallerConnect(k)
  \/ ReconnectTimerFire
  \/ \E s \in Sock : OnOpen(s)
  \/ \E s \in Sock, token \in RenewedTokens : OnAuthMessage(s, token)
  \/ \E s \in Sock, msg \in {SuccessFrame(1), FailureFrame(1)} : OnResponse(s, msg)
  \/ OnRequestTimeout(1)
  \/ \E s \in Sock : OnClosing(s)
  \/ \E s \in Sock : OnClose(s)

TokenSpec == TokenInit /\ [][TokenNext]_vars

\* The fairness of FairSpec for the steps of TokenNext.
TokenFairness ==
  /\ SF_vars(\E s \in Sock, token \in RenewedTokens : OnAuthMessage(s, token))
  /\ \A s \in Sock : WF_vars(readyState[s] = "CLOSING" /\ OnClose(s))
  /\ WF_vars(ReconnectTimerFire)
  /\ WF_vars(OnRequestTimeout(1))
  /\ \A s \in Sock : WF_vars(OnOpen(s))
  /\ \A s \in Sock : WF_vars(\E token \in RenewedTokens : OnAuthMessage(s, token))

\* One wsSend, one page, with timers and socket events delivered.
ReconnectSpec == Init /\ [][TokenNext]_vars /\ TokenFairness

\* One wsSend answered by failure frames with every combination of fields.
ErrorNext ==
  \/ wsSend(1)
  \/ \E k \in Connector : CallerConnect(k)
  \/ ReconnectTimerFire
  \/ \E s \in Sock : OnOpen(s)
  \/ \E s \in Sock, token \in PushTokens : OnAuthMessage(s, token)
  \/ \E s \in Sock, msg \in FailureFrames \cup {SuccessFrame(1)} : OnResponse(s, msg)
  \/ OnRequestTimeout(1)
  \/ \E s \in Sock : OnClosing(s)
  \/ \E s \in Sock : OnClose(s)

ErrorSpec == Init /\ [][ErrorNext]_vars

\* The page of Init with the event history kept: which handler ran last and,
\* for a message event, the frame's id and the socket.  One wsSend, response
\* frames for its id and for an id never allocated, and authentication pushes
\* that renew the token.
ObservedInit == InitWith({"fresh"}, {"cached"}) /\ lastEvent = NoEvent

ObservedNext ==
  \/ wsSend(1)
  \/ \E k \in Connector : CallerConnect(k)
  \/ ReconnectTimerFire
  \/ \E s \in Sock : OnOpen(s)
  \/ \E s \in Sock, token \in RenewedTokens : OnAuthMessage(s, token)
  \/ \E s \in Sock, msg \in Frames : OnResponse(s, msg)
  \/ OnRequestTimeout(1)
  \/ \E s \in Sock : OnClosing(s)
  \/ \E s \in Sock : OnClose(s)

ObservedSpec == ObservedInit /\ [][ObservedNext]_vars

\* ---- properties ----

Registered(c) == calls[c].frames > 0
Awaiting(c) == calls[c].st = "pending"
LiveTransports == {s \in Sock : readyState[s] \in {"CONNECTING", "OPEN"}}

\* C1: resolve/reject of a call's promise is invoked at most once; a call that
\* was registered is settled by a response frame, its timer or a close; and
\* once it is settled neither a timer nor a pending entry of it remains, so
\* the other paths find nothing to act on.
C1_AtMostOnceSettlement ==
  \A c \in Call :
    /\ calls[c].nSettle <= 1
    /\ calls[c].st = "settled" =>
         /\ calls[c].nSettle = 1
         /\ c \notin timers
         /\ c \notin Range(wsPending)
    /\ (calls[c].st = "settled" /\ Registered(c)) =>
         calls[c].outcome \in {"result", "error", "timeout", "closed"}

\* two calls settled by different paths, one of them by a close, and a
\* reconnect timer still armed
C1_Witness ==
  /\ calls[1].outcome = "timeout"
  /\ calls[2].outcome = "closed"
  /\ reconnectTimers > 0

\* C3: at most one transport is connecting or open.
C3_AtMostOneTransport == Cardinality(LiveTransports) <= 1

\* C5: two calls awaiting their response never share a correlation id, and
\* the pending entry of each is still its own (no registration overwrote it).
C5_CorrelationUniqueness ==
  \A c \in Call : Awaiting(c) =>
    /\ calls[c].id \in DOMAIN wsPending
    /\ wsPending[calls[c].id] = c
    /\ \A d \in Call : (d # c /\ Awaiting(d)) => calls[d].id # calls[c].id

\* two calls are pending at the same time
C5_Witness == Awaiting(1) /\ Awaiting(2) /\ Cardinality(DOMAIN wsPending) = 2

\* C2: every call that was invoked is eventually settled.
C2_NoCallerHangs ==
  \A c \in Call : (calls[c].st \in {"waiting", "pending"}) ~> (calls[c].st = "settled")

\* a step that handles the close event of some socket
CloseStep == \E s \in Sock : readyState[s] # "NONE" /\ readyState'[s] = "NONE"

\* C4: the close handler rejects every pending call with the channel-closed
\* error and leaves the pending table empty and none of their timers armed,
\* in the same step: no registration and no connection attempt comes between.
C4_BulkFailOnClose ==
  [][CloseStep =>
       /\ \A c \in Range(wsPending) :
            /\ calls'[c].st = "settled"
            /\ calls'[c].outcome = "closed"
            /\ c \notin timers'
       /\ wsPending' = <<>>
       /\ wsReqId' = wsReqId
       /\ \A s \in Sock : readyState'[s] = "CONNECTING" => readyState[s] = "CONNECTING"
  ]_vars

\* one close event rejected two outstanding calls
C4_Witness ==
  /\ lastClosed = {1, 2}
  /\ calls[1].outcome = "closed"
  /\ calls[2].outcome = "closed"
  /\ wsPending = <<>>

\* C6: a request frame is written only to a transport on which the
\* authentication push has been received.
C6_SendOnlyWhenReady ==
  [][\A c \in Call : calls'[c].frames > calls[c].frames => (ws # NULL /\ authed[ws])]_vars

\* C7: a wsConnect promise awaited by start() or by a wsSend resolves only
\* when the socket currently held has received an authentication push.
C7_ConnectResolvesOnlyAtReady ==
  [][/\ \A k \in Connector :
          (conns[k] # "resolved" /\ conns'[k] = "resolved") => (ws' # NULL /\ authed'[ws'])
     /\ \A c \in Call :
          (calls[c].st = "waiting" /\ calls'[c].st # "waiting") => (ws' # NULL /\ authed'[ws'])
  ]_vars

\* a step in which the first authentication push of some socket is handled
AuthStep == \E s \in Sock : ~authed[s] /\ authed'[s]

\* C8: handling an authentication push resolves every caller that is waiting
\* for the connection.
C8_AuthResolvesAllWaiters ==
  [][AuthStep =>
       /\ \A k \in Connector : conns'[k] # "waiting"
       /\ \A c \in Call : calls'[c].st # "waiting"
  ]_vars

\* min(500 * 2^(k-1), 16000)
Backoff(k) == Min(500 * 2^(k - 1), 16000)

\* C9: the reconnect timer armed by the k-th consecutive close has the delay
\* min(500 * 2^(k-1), 16000).
C9_BackoffGrowth == closeCount >= 1 => lastDelay = Backoff(closeCount)

\* the cap is reached and held
C9_Witness == closeCount = MaxCloseCount /\ lastDelay = 16000

\* C10: once a transport has opened the delay is 500, and the first close
\* after an open that followed failures arms its timer with 500.
C10_BackoffReset ==
  /\ closeCount = 0 => wsReconnectDelay = 500
  /\ (closeCount = 1 /\ failuresBefore > 0) => lastDelay = 500

\* two or more failures, then an open, then a close scheduled with 500
C10_Witness == closeCount = 1 /\ failuresBefore = 2 /\ lastDelay = 500

\* a step in which wsConnect opens a transport
ConnectStep == \E s \in Sock : readyState[s] = "NONE" /\ readyState'[s] = "CONNECTING"

\* C11: every close arms a reconnect timer, the manager never holds no
\* transport after a close without a timer armed, and an armed timer leads
\* to a held transport that is connecting or open.
C11_ReconnectForever ==
  /\ [][CloseStep => reconnectTimers' = reconnectTimers + 1]_vars
  /\ []((ws = NULL /\ everClosed) => reconnectTimers > 0)
  /\ (reconnectTimers > 0) ~> (ws # NULL /\ readyState[ws] \in {"CONNECTING", "OPEN"})

\* after a long streak of failures the latest timer has fired and a new
\* attempt is under way
C11_Witness ==
  /\ closeCount = MaxCloseCount
  /\ reconnectTimers = 0
  /\ ws # NULL
  /\ readyState[ws] = "CONNECTING"

\* the hosting page supplied a token of its own
FreshSupplied == metaToken \notin {NoMeta, NoToken, "undefined"}

\* C12: before any authentication push a connection attempt carries the
\* page's fresh token when one is supplied; it carries the cached token only
\* when none is.
C12_TokenPrecedence ==
  [][(ConnectStep /\ lastPushed = NoToken) =>
       /\ FreshSupplied => lastUrlToken' = metaToken
       /\ (sessionToken # NoToken /\ lastUrlToken' = sessionToken) => ~FreshSupplied
  ]_vars

\* a first attempt with a fresh and a different cached token
C12_Witness ==
  /\ lastPushed = NoToken
  /\ metaToken = "fresh"
  /\ sessionToken = "cached"
  /\ lastUrlToken = "fresh"
  /\ ws # NULL

\* C13: the pushed token is the one stored, and every connection attempt
\* after a push carries the latest pushed token.
C13_PushedTokenSupersedes ==
  [][/\ lastPushed' # NoToken => (wsToken' = lastPushed' /\ sessionToken' = lastPushed')
     /\ (ConnectStep /\ lastPushed # NoToken) => lastUrlToken' = lastPushed
  ]_vars

\* a reconnect carrying a renewed token although the page supplied a fresh one
C13_Witness ==
  /\ metaToken = "fresh"
  /\ lastPushed = "renewed"
  /\ lastUrlToken = "renewed"
  /\ sessionToken = "renewed"
  /\ ws # NULL /\ readyState[ws] = "CONNECTING"

\* C14: a call settled by a response frame was settled by the frame that
\* carries its own id, with that frame's result or error.
C14_MatchedById ==
  \A c \in Call :
    /\ calls[c].outcome \in {"result", "error"} => calls[c].frame.id = calls[c].id
    /\ calls[c].outcome = "result" => calls[c].value.result = calls[c].id
    /\ calls[c].outcome = "error" => calls[c].value.attempted = calls[c].id

\* the second request is answered while the first is still pending
C14_Witness ==
  /\ Awaiting(1)
  /\ calls[1].id = 1
  /\ calls[2].outcome = "result"
  /\ calls[2].value.result = 2

\* C15: the rejection carries the failure frame's message and code and each
\* rate-limit field the frame has, unchanged.
C15_FailureFieldsVerbatim ==
  \A c \in Call : calls[c].outcome = "error" =>
    /\ calls[c].frame.error # UndefinedText => calls[c].value.message = calls[c].frame.error
    /\ calls[c].frame.code # Undefined => calls[c].value.code = calls[c].frame.code
    /\ calls[c].frame.limit # Undefined => calls[c].value.limit = calls[c].frame.limit
    /\ calls[c].frame.current # Undefined => calls[c].value.current = calls[c].frame.current
    /\ calls[c].frame.attempted # Undefined =>
         calls[c].value.attempted = calls[c].frame.attempted

\* C16: as long as no transport was refused or dropped, no call is rejected
\* with the not-connected error and none writes a second frame.
C16_ConcurrentCallsAllSent ==
  ~everClosed => \A c \in Call : calls[c].outcome # "notconnected" /\ calls[c].frames <= 1

\* C17: a call writes at most one frame, and once it is settled it writes
\* none and stays settled.
C17_NoCallRetry ==
  [][\A c \in Call :
       /\ calls'[c].frames <= 1
       /\ calls[c].st = "settled" =>
            (calls'[c].st = "settled" /\ calls'[c].frames = calls[c].frames)
  ]_vars

\* a call was rejected by a close and the connection is authenticated again
C17_Witness ==
  /\ calls[1].outcome = "closed"
  /\ calls[1].frames = 1
  /\ everClosed
  /\ ws # NULL /\ readyState[ws] = "OPEN" /\ authed[ws]

\* C18: the id counter never decreases and every id allocated is larger
\* than every id allocated before.
C18_IdsNeverReused ==
  [][/\ wsReqId' >= wsReqId
     /\ \A c \in Call : (calls[c].id = 0 /\ calls'[c].id # 0) =>
          /\ calls'[c].id > wsReqId
          /\ \A d \in Call : calls[d].id < calls'[c].id
  ]_vars

\* the second id was allocated on a connection made after the close that
\* rejected the first request
C18_Witness ==
  /\ calls[1].outcome = "closed"
  /\ calls[1].id = 1
  /\ Awaiting(2)
  /\ calls[2].id = 2

\* C19: a call rejected by its timer is settled with the timeout error, has no
\* entry under its id and no timer, and nothing changes it afterwards.
C19_TimeoutPath ==
  [][\A c \in Call :
       /\ calls'[c].outcome = "timeout" =>
            /\ calls'[c].st = "settled"
            /\ calls'[c].id \notin DOMAIN wsPending'
            /\ c \notin timers'
       /\ calls[c].outcome = "timeout" => calls'[c] = calls[c]
  ]_vars

\* the first request timed out while its transport is still open and the
\* second request is pending
C19_Witness ==
  /\ calls[1].outcome = "timeout"
  /\ Awaiting(2)
  /\ wsIsOpen

\* C20: the armed request timers are those of the entries of the pending
\* table.
C20_TimersTrackPending ==
  /\ timers = Range(wsPending)
  /\ {calls[c].id : c \in timers} = DOMAIN wsPending

\* one of two armed timers was cancelled by a response
C20_Witness ==
  /\ calls[1].outcome = "result"
  /\ timers = {2}
  /\ DOMAIN wsPending = {2}

\* the state the manager keeps besides the call records and the histories
managerVars == <<ws, readyState, authed, waiter, wsToken, sessionToken, metaToken,
                 wsPending, timers, wsReqId, wsReconnectDelay, reconnectTimers>>

\* C21: a response frame whose id is not in the pending table changes
\* neither the table, the timers, the transports, the tokens, the backoff
\* delay nor any call or connect promise.
C21_UnknownIdsDiscarded ==
  [][(lastEvent'[1] = "response" /\ lastEvent'[2] \notin DOMAIN wsPending) =>
       UNCHANGED <<managerVars, calls, conns, lastUrlToken>>
  ]_vars

\* the frame for a request that had timed out arrived on the current
\* transport
C21_Witness ==
  /\ lastEvent[1] = "response"
  /\ lastEvent[2] = 1
  /\ lastEvent[3] = ws
  /\ calls[1].outcome = "timeout"
  /\ calls[1].id = 1

\* call c is settled by a response frame or by its timer
SettledByOwnPath(c) ==
  calls[c].outcome = "none" /\ calls'[c].outcome \in {"result", "error", "timeout"}

\* C22: a response frame or a timeout that settles a call removes that call's
\* entry and timer only and leaves the other calls, the transports and the
\* backoff delay as they are; a step that changes two calls is a close.
C22_FailureIsolation ==
  [][/\ \A c \in Call : SettledByOwnPath(c) =>
          /\ wsPending' = MapDelete(wsPending, calls[c].id)
          /\ timers' = timers \ {c}
          /\ \A d \in Call \ {c} : calls'[d] = calls[d]
          /\ UNCHANGED <<sockVars, wsReconnectDelay, reconnectTimers, conns>>
     /\ Cardinality({c \in Call : calls'[c] # calls[c]}) > 1 => CloseStep
  ]_vars

\* the first request was rejected by a failure frame while the second stays
\* pending
C22_Witness ==
  /\ calls[1].outcome = "error"
  /\ Awaiting(2)
  /\ 2 \in timers
  /\ wsIsOpen

\* C23: an authentication frame, whatever id it carries, stores its token and
\* leaves every pending entry, its timer and its call as they are; a repeated
\* push on a transport changes nothing but the token.
C23_AuthBypassesMultiplexer ==
  [][lastEvent'[1] \in {"auth", "reauth"} =>
       /\ wsToken' = lastPushed' /\ sessionToken' = lastPushed'
       /\ \A id \in DOMAIN wsPending :
            id \in DOMAIN wsPending' /\ wsPending'[id] = wsPending[id]
       /\ \A c \in Call : Awaiting(c) => (calls'[c] = calls[c] /\ c \in timers')
       /\ lastEvent'[1] = "reauth" =>
            UNCHANGED <<sockVars, callVars, conns, wsReconnectDelay, reconnectTimers,
                        metaToken, lastUrlToken>>
  ]_vars

\* a repeated push that renewed the token carried the id of the pending request
C23_Witness ==
  /\ lastEvent[1] = "reauth"
  /\ lastEvent[2] = 1
  /\ Awaiting(1)
  /\ calls[1].id = 1
  /\ 1 \in DOMAIN wsPending
  /\ wsToken = "renewed"

\* C24: a call rejected with the not-connected error has no id, no entry, no
\* timer and no frame, and the counter counts the ids of the other calls only.
C24_NotConnectedNoTrace ==
  /\ \A c \in Call : calls[c].outcome = "notconnected" =>
       /\ calls[c].id = 0
       /\ calls[c].frames = 0
       /\ c \notin timers
       /\ c \notin Range(wsPending)
  /\ wsReqId = Cardinality({c \in Call : calls[c].id # 0})

\* the first call was rejected unsent and the second got the first id
C24_Witness ==
  /\ calls[1].outcome = "notconnected"
  /\ Awaiting(2)
  /\ calls[2].id = 1
  /\ wsReqId = 1

\* C25: before any push, a page that supplies no token connects with the
\* cached token, or with no token parameter when none is cached; the token
\* of the authentication push is cached.
C25_AnonymousConnect ==
  [][/\ (ConnectStep /\ lastPushed = NoToken /\ ~FreshSupplied) =>
          lastUrlToken' = sessionToken
     /\ AuthStep => sessionToken' = lastPushed'
  ]_vars

\* C26: a call is rejected with the channel-closed error only in the step in
\* which the transport its frame was written to closes.
C26_CloseScopedToOwnTransport ==
  [][\A c \in Call :
       (calls[c].outcome = "none" /\ calls'[c].outcome = "closed") =>
         readyState'[calls[c].sock] = "NONE"
  ]_vars

\* C27: the close event of a transport that is not the current one leaves
\* the current handle in place.
C27_StaleCloseKeepsHandle ==
  [][\A s \in Sock :
       (readyState[s] # "NONE" /\ readyState'[s] = "NONE" /\ ws # NULL /\ ws # s) =>
         ws' = ws
  ]_vars

\* C28: a close arms exactly one reconnect timer, and a timer that fires
\* while the current transport is open only disarms itself.
C28_OneTimerPerClose ==
  [][/\ CloseStep => reconnectTimers' = reconnectTimers + 1
     /\ (lastEvent'[1] = "timer" /\ wsIsOpen) =>
          /\ reconnectTimers' = reconnectTimers - 1
          /\ UNCHANGED <<sockVars, callVars, conns, wsReconnectDelay, tokenVars,
                          lastUrlToken>>
  ]_vars

\* the timer of an earlier close fired after a call had connected again
C28_Witness ==
  /\ lastEvent[1] = "timer"
  /\ wsIsOpen
  /\ reconnectTimers = 0
  /\ everClosed

\* C29: while no transport handle is held the pending table is empty (and no
\* request timer armed), and an entry is added only while the current
\* transport is open.
C29_DisconnectedNothingPending ==
  /\ [](ws = NULL => (wsPending = <<>> /\ timers = {}))
  /\ [][(DOMAIN wsPending' \ DOMAIN wsPending # {}) => (wsIsOpen /\ ws' = ws)]_vars

\* the close of a superseded transport emptied the table of a request
\* outstanding on another transport, which is still open
C29_Witness ==
  /\ ws = NULL
  /\ wsPending = <<>>
  /\ lastClosed = {2}
  /\ \E s \in Sock : readyState[s] = "OPEN"

\* a step that handles the open event of some socket
OpenStep == \E s \in Sock : readyState[s] = "CONNECTING" /\ readyState'[s] = "OPEN"

\* C30: the delay is one of 500, 1000, 2000, 4000, 8000, 16000, and it changes
\* only at an open event, to 500, and at a close event, to its double capped
\* at 16000.
C30_DelayRange ==
  /\ [](wsReconnectDelay \in {500, 1000, 2000, 4000, 8000, 16000})
  /\ [][wsReconnectDelay' # wsReconnectDelay =>
          \/ OpenStep /\ wsReconnectDelay' = 500
          \/ CloseStep /\ wsReconnectDelay' = Min(2 * wsReconnectDelay, 16000)
       ]_vars

\* the cap has just been reached
C30_Witness == wsReconnectDelay = 16000 /\ lastDelay = 8000

====
